---- MODULE Spec2Model ----
(***************************************************************************)
(* A model of imessage-database's Message (src/tables/messages.rs): the    *)
(* segmentation of a message body, the classification of a message into a  *)
(* Variant, the decoding of the association and reply identifiers, the     *)
(* reaction cache and the reaction and reply lookups over the message      *)
(* table, and the dates with readable_diff of src/util/dates.rs.           *)
(*                                                                         *)
(* A Rust String is modelled as a sequence of characters.  A character is  *)
(* a TLA+ string: one ASCII character, or the name of a character or of a  *)
(* literal of the source or of its tests (a known bundle identifier, the   *)
(* music URL prefix) that the code only ever compares as a whole.  Utf8Len *)
(* gives the number of bytes of a character, since the code indexes        *)
(* strings by byte.                                                        *)
(* An Option is None or Some(x); a panic (unwrap on None/Err, slicing off  *)
(* a character boundary) is the value Panic.                               *)
(***************************************************************************)
EXTENDS Integers, Sequences, FiniteSets, TLC

\* the fields of one Message (self_guid is its guid)
VARIABLES text, balloon_bundle_id, associated_message_guid,
          associated_message_type, thread_originator_part,
          self_guid, num_replies, date, date_read, date_delivered, is_from_me

\* the message table the Connection reads, in table order, and the reaction cache
\* handed to get_reactions
VARIABLES db, reactions

\* the arguments of readable_diff, and the instants (seconds since the Unix epoch)
\* whose wall-clock time the local time zone does not map to a single instant
VARIABLES diff_start, diff_end, ambiguous

\* the last call and what it returned
VARIABLES op, ret

msg_fields == <<text, balloon_bundle_id, associated_message_guid,
                associated_message_type, thread_originator_part,
                self_guid, num_replies, date, date_read, date_delivered,
                is_from_me>>

inputs == <<msg_fields, db, reactions, diff_start, diff_end, ambiguous>>

vars == <<inputs, op, ret>>

----------------------------------------------------------------------------
(* Option, panic *)

None == <<"None">>

Some(x) == <<"Some", x>>

\* a call that panics returns Panic, a call that returns v returns Ok(v)
Panic == <<"Panic">>

Ok(v) == <<"Ok", v>>

IsPanic(r) == r[1] = "Panic"

is_some(o) == o[1] = "Some"

----------------------------------------------------------------------------
(* Characters and strings *)

ATTACHMENT_CHAR == "FFFC"

APP_CHAR == "FFFD"

REPLACEMENT_CHARS == {ATTACHMENT_CHAR, APP_CHAR}

\* U+1F648, the emoji of the tests: a character of four bytes
EMOJI == "1F648"

\* literals of the source, each one character of the model: the prefix of a music
\* URL occurs in text, which is never split; the bundle identifiers contain no ':'
MUSIC_PREFIX == "https://music.apple"

URL_BALLOON == "com.apple.messages.URLBalloonProvider"

HANDWRITING == "com.apple.Handwriting.HandwritingProvider"

APPLE_PAY == "com.apple.PassbookUIService.PeerPaymentMessagesExtension"

FITNESS == "com.apple.ActivityMessagesApp.MessagesExtension"

SLIDESHOW == "com.apple.mobileslideshow.PhotosMessagesApp"

\* the parts of the bundle identifiers of the tests
PLUGIN == "com.apple.messages.MSMessageExtensionBalloonPlugin"

APPLE_TEAM == "0000000000"

OPENTABLE_TEAM == "QPU8QS3E62"

OPENTABLE == "com.contextoptional.OpenTable.Messages"

\* the number of bytes of the UTF-8 encoding of a character
Utf8Len(c) ==
    CASE c \in REPLACEMENT_CHARS -> 3
      [] c = EMOJI -> 4
      [] c = MUSIC_PREFIX -> 19
      [] c = URL_BALLOON -> 37
      [] c = HANDWRITING -> 41
      [] c = APPLE_PAY -> 56
      [] c = FITNESS -> 47
      [] c = SLIDESHOW -> 43
      [] c = PLUGIN -> 50
      [] c \in {APPLE_TEAM, OPENTABLE_TEAM} -> 10
      [] c = OPENTABLE -> 38
      [] OTHER -> 1

RECURSIVE ByteLen(_)
\* str::len: the length of a string in bytes
ByteLen(s) == IF s = <<>> THEN 0 ELSE Utf8Len(Head(s)) + ByteLen(Tail(s))

\* the byte index of the k-th character of s (1-based k), as char_indices yields it
ByteIdx(s, k) == ByteLen(SubSeq(s, 1, k - 1))

\* str::is_char_boundary
IsCharBoundary(s, i) == \E k \in 1..(Len(s) + 1) : ByteIdx(s, k) = i

\* the number of characters of s that lie before the byte index i (a character boundary)
CharsBefore(s, i) == (CHOOSE k \in 1..(Len(s) + 1) : ByteIdx(s, k) = i) - 1

\* &s[a..b] does not panic
SliceOk(s, a, b) == a <= b /\ IsCharBoundary(s, a) /\ IsCharBoundary(s, b)

\* &s[a..b], by byte index
Slice(s, a, b) == SubSeq(s, CharsBefore(s, a) + 1, CharsBefore(s, b))

\* char::is_whitespace, on the characters of the model
IsWhitespace(c) == c = " "

RECURSIVE trim_start(_)
trim_start(s) ==
    IF s # <<>> /\ IsWhitespace(Head(s)) THEN trim_start(Tail(s)) ELSE s

RECURSIVE trim_end(_)
trim_end(s) ==
    IF s # <<>> /\ IsWhitespace(s[Len(s)]) THEN trim_end(SubSeq(s, 1, Len(s) - 1)) ELSE s

\* str::trim
trim(s) == trim_end(trim_start(s))

\* str::starts_with
starts_with(s, p) == Len(s) >= Len(p) /\ SubSeq(s, 1, Len(p)) = p

----------------------------------------------------------------------------
(* BubbleType *)

BubbleText(s) == <<"Text", s>>

BubbleAttachment == <<"Attachment">>

BubbleApp == <<"App">>

----------------------------------------------------------------------------
(* Message::body *)

BodySentinel_attachment(t, idx, char, start, end, out_v) ==
    Append(IF start < end
           THEN Append(out_v, BubbleText(trim(Slice(t, start, idx))))
           ELSE out_v,
           BubbleAttachment)

\* the sentinel branch of the loop: the pending run, then the placeholder
BodySentinel(t, idx, char, start, end, out_v) ==
    Append(IF start < end
           THEN Append(out_v, BubbleText(trim(Slice(t, start, idx))))
           ELSE out_v,
           IF char = ATTACHMENT_CHAR THEN BubbleAttachment ELSE BubbleApp)

BodyFinish_lt(t, start, end, out_v) ==
    IF start < end /\ start < ByteLen(t)
    THEN IF SliceOk(t, start, ByteLen(t))
         THEN Ok(Append(out_v, BubbleText(trim(Slice(t, start, ByteLen(t))))))
         ELSE Panic
    ELSE Ok(out_v)

\* after the loop: the run that remains
BodyFinish(t, start, end, out_v) ==
    IF start <= end /\ start < ByteLen(t)
    THEN IF SliceOk(t, start, ByteLen(t))
         THEN Ok(Append(out_v, BubbleText(trim(Slice(t, start, ByteLen(t))))))
         ELSE Panic
    ELSE Ok(out_v)

RECURSIVE BodyLoop(_, _, _, _, _)
\* the loop over text.char_indices(), from the k-th character on
BodyLoop(t, k, start, end, out_v) ==
    IF k > Len(t) THEN BodyFinish(t, start, end, out_v)
    ELSE LET idx == ByteIdx(t, k)
             char == t[k]
         IN  IF char \in REPLACEMENT_CHARS
             THEN IF start < end /\ ~SliceOk(t, start, idx)
                  THEN Panic
                  ELSE BodyLoop(t, k + 1, idx + 1, idx,
                                BodySentinel(t, idx, char, start, end, out_v))
             ELSE BodyLoop(t, k + 1, IF start > end THEN idx ELSE start, idx, out_v)

body_no_escape(bundle, txt) ==
    IF is_some(txt) THEN BodyLoop(txt[2], 1, 0, 0, <<>>) ELSE Ok(<<>>)

\* Message::body: Ok(out_v), or Panic
body(bundle, txt) ==
    IF is_some(bundle) THEN Ok(<<BubbleApp>>)
    ELSE IF is_some(txt) THEN BodyLoop(txt[2], 1, 0, 0, <<>>)
    ELSE Ok(<<>>)

----------------------------------------------------------------------------
(* Parsing and splitting *)

Digits == {"0", "1", "2", "3", "4", "5", "6", "7", "8", "9"}

DigitVal(c) ==
    CASE c = "0" -> 0 [] c = "1" -> 1 [] c = "2" -> 2 [] c = "3" -> 3 [] c = "4" -> 4
      [] c = "5" -> 5 [] c = "6" -> 6 [] c = "7" -> 7 [] c = "8" -> 8 [] c = "9" -> 9

RECURSIVE DigitsValue(_, _)
\* the value of a string of decimal digits, most significant first
DigitsValue(s, acc) ==
    IF s = <<>> THEN acc ELSE DigitsValue(Tail(s), acc * 10 + DigitVal(Head(s)))

\* str::parse::<usize>: Some(n), or None for Err.  A leading '+' is accepted, a '-'
\* is not (usize is unsigned), and the empty string is an error.  The strings of the
\* model have too few digits to overflow a usize.
parse_usize(s) ==
    LET digits == IF s # <<>> /\ Head(s) = "+" THEN Tail(s) ELSE s
    IN  IF digits # <<>> /\ \A i \in 1..Len(digits) : digits[i] \in Digits
        THEN Some(DigitsValue(digits, 0))
        ELSE None

RECURSIVE split(_, _)
\* str::split(sep) on a character, collected: always at least one part
split(s, sep) ==
    IF \E i \in 1..Len(s) : s[i] = sep
    THEN LET i == CHOOSE j \in 1..Len(s) : s[j] = sep /\ \A l \in 1..(j - 1) : s[l] # sep
         IN  <<SubSeq(s, 1, i - 1)>> \o split(SubSeq(s, i + 1, Len(s)), sep)
    ELSE <<s>>

\* Iterator::next on the parts of a split, when n parts were taken before
next_part(parts, n) == IF n < Len(parts) THEN Some(parts[n + 1]) ELSE None

RECURSIVE replace(_, _, _)
\* str::replace: every non-overlapping occurrence of from, left to right
replace(s, from, to) ==
    IF s = <<>> THEN <<>>
    ELSE IF starts_with(s, from)
         THEN to \o replace(SubSeq(s, Len(from) + 1, Len(s)), from, to)
         ELSE <<Head(s)>> \o replace(Tail(s), from, to)

unwrap_or(o, d) == IF is_some(o) THEN o[2] ELSE d

----------------------------------------------------------------------------
(* Message::clean_associated_guid, reaction_index, get_reply_index *)

P_PREFIX == <<"p", ":">>

BP_PREFIX == <<"b", "p", ":">>

strip_bp_from_2(guid) ==
    IF SliceOk(guid, 2, ByteLen(guid))
    THEN Ok(Some(<<0, Slice(guid, 2, ByteLen(guid))>>))
    ELSE Panic

\* the 'bp:' arm: Some((0, &guid[3..guid.len()]))
strip_bp(guid) ==
    IF SliceOk(guid, 3, ByteLen(guid))
    THEN Ok(Some(<<0, Slice(guid, 3, ByteLen(guid))>>))
    ELSE Panic

\* Ok(None), Ok(Some(<<index, target>>)), or Panic
clean_associated_guid(guid_opt) ==
    IF is_some(guid_opt)
    THEN LET guid == guid_opt[2]
         IN  IF starts_with(guid, P_PREFIX)
             THEN LET parts == split(guid, "/")
                      index_str == next_part(parts, 0)
                      message_id == next_part(parts, 1)
                      index == unwrap_or(parse_usize(replace(index_str[2], P_PREFIX, <<>>)), 0)
                  IN  IF is_some(message_id)
                      THEN Ok(Some(<<index, message_id[2]>>))
                      ELSE Panic
             ELSE IF starts_with(guid, BP_PREFIX)
                  THEN strip_bp(guid)
                  ELSE Ok(Some(<<0, guid>>))
    ELSE Ok(None)

\* Ok(index), or Panic
reaction_index(guid_opt) ==
    LET r == clean_associated_guid(guid_opt)
    IN  IF IsPanic(r) THEN Panic
        ELSE IF is_some(r[2]) THEN Ok(r[2][2][1]) ELSE Ok(0)

\* Ok(index), or Panic
get_reply_index(part_opt) ==
    IF is_some(part_opt)
    THEN LET part == next_part(split(part_opt[2], ":"), 0)
         IN  IF is_some(part)
             THEN LET n == parse_usize(part[2])
                  IN  IF is_some(n) THEN Ok(n[2]) ELSE Panic
             ELSE Ok(0)
    ELSE Ok(0)

----------------------------------------------------------------------------
(* Message::parse_balloon_bundle_id, Message::variant *)

parse_balloon_bundle_id_second(bundle_opt) ==
    IF is_some(bundle_opt)
    THEN LET parts == split(bundle_opt[2], ":")
             bundle_id == next_part(parts, 0)
         IN  IF ~is_some(next_part(parts, 1))
             THEN bundle_id
             ELSE next_part(parts, 1)
    ELSE None

\* None, or Some(the effective identifier)
parse_balloon_bundle_id(bundle_opt) ==
    IF is_some(bundle_opt)
    THEN LET parts == split(bundle_opt[2], ":")
             bundle_id == next_part(parts, 0)
         IN  IF ~is_some(next_part(parts, 1))
             THEN bundle_id
             ELSE next_part(parts, 2)
    ELSE None

VariantNormal == <<"Normal">>

VariantApp(balloon) == <<"App", balloon>>

VariantSticker(idx) == <<"Sticker", idx>>

VariantReaction(idx, added, reaction) == <<"Reaction", idx, added, reaction>>

VariantUnknown(x) == <<"Unknown", x>>

\* CustomBalloon
BalloonURL == <<"URL">>

BalloonMusic == <<"Music">>

BalloonHandwriting == <<"Handwriting">>

BalloonApplePay == <<"ApplePay">>

BalloonFitness == <<"Fitness">>

BalloonSlideshow == <<"Slideshow">>

BalloonApplication(id) == <<"Application", id>>

VariantStandard_raw_id(bundle_opt, txt) ==
    LET parsed == parse_balloon_bundle_id(bundle_opt)
    IN  IF is_some(parsed)
        THEN LET bundle_id == parsed[2]
             IN  CASE bundle_id = <<URL_BALLOON>> ->
                        IF is_some(txt) /\ starts_with(txt[2], <<MUSIC_PREFIX>>)
                        THEN VariantApp(BalloonMusic)
                        ELSE VariantApp(BalloonURL)
                   [] bundle_id = <<HANDWRITING>> -> VariantApp(BalloonHandwriting)
                   [] bundle_id = <<APPLE_PAY>> -> VariantApp(BalloonApplePay)
                   [] bundle_id = <<FITNESS>> -> VariantApp(BalloonFitness)
                   [] bundle_id = <<SLIDESHOW>> -> VariantApp(BalloonSlideshow)
                   [] OTHER -> VariantApp(BalloonApplication(bundle_opt[2]))
        ELSE VariantNormal

\* the arm of variant for the codes 0, 2 and 3
VariantStandard(bundle_opt, txt) ==
    LET parsed == parse_balloon_bundle_id(bundle_opt)
    IN  IF is_some(parsed)
        THEN LET bundle_id == parsed[2]
             IN  CASE bundle_id = <<URL_BALLOON>> ->
                        IF is_some(txt)
                        THEN IF starts_with(txt[2], <<MUSIC_PREFIX>>)
                             THEN VariantApp(BalloonMusic)
                             ELSE VariantApp(BalloonURL)
                        ELSE VariantApp(BalloonURL)
                   [] bundle_id = <<HANDWRITING>> -> VariantApp(BalloonHandwriting)
                   [] bundle_id = <<APPLE_PAY>> -> VariantApp(BalloonApplePay)
                   [] bundle_id = <<FITNESS>> -> VariantApp(BalloonFitness)
                   [] bundle_id = <<SLIDESHOW>> -> VariantApp(BalloonSlideshow)
                   [] OTHER -> VariantApp(BalloonApplication(bundle_id))
        ELSE VariantNormal

\* the arms of variant that carry reaction_index
VariantIndexed(code, idx) ==
    CASE code = 1000 -> VariantSticker(idx)
      [] code = 2000 -> VariantReaction(idx, TRUE, "Loved")
      [] code = 2001 -> VariantReaction(idx, TRUE, "Liked")
      [] code = 2002 -> VariantReaction(idx, TRUE, "Disliked")
      [] code = 2003 -> VariantReaction(idx, TRUE, "Laughed")
      [] code = 2004 -> VariantReaction(idx, TRUE, "Emphasized")
      [] code = 2005 -> VariantReaction(idx, TRUE, "Questioned")
      [] code = 3000 -> VariantReaction(idx, FALSE, "Loved")
      [] code = 3001 -> VariantReaction(idx, FALSE, "Liked")
      [] code = 3002 -> VariantReaction(idx, FALSE, "Disliked")
      [] code = 3003 -> VariantReaction(idx, FALSE, "Laughed")
      [] code = 3004 -> VariantReaction(idx, FALSE, "Emphasized")
      [] code = 3005 -> VariantReaction(idx, FALSE, "Questioned")

IndexedCodes == {1000} \cup (2000..2005) \cup (3000..3005)

variant_app_without_bundle(code, bundle_opt, txt, guid_opt) ==
    IF code \in {0, 2, 3} THEN Ok(VariantApp(BalloonURL))
    ELSE IF code \in IndexedCodes
         THEN LET idx == reaction_index(guid_opt)
              IN  IF IsPanic(idx) THEN Panic ELSE Ok(VariantIndexed(code, idx[2]))
         ELSE Ok(VariantUnknown(code))

\* Message::variant: Ok(variant), or Panic
variant(code, bundle_opt, txt, guid_opt) ==
    IF code \in {0, 2, 3} THEN Ok(VariantStandard(bundle_opt, txt))
    ELSE IF code \in IndexedCodes
         THEN LET idx == reaction_index(guid_opt)
              IN  IF IsPanic(idx) THEN Panic ELSE Ok(VariantIndexed(code, idx[2]))
         ELSE Ok(VariantUnknown(code))

----------------------------------------------------------------------------
(* util/dates.rs, and the dates of a Message *)

SEPARATOR == <<",", " ">>

TIMESTAMP_FACTOR == 1000000000

\* chrono keeps an instant and a duration as whole seconds and a count of
\* nanoseconds in 0..NANOS_PER_SEC-1
NANOS_PER_SEC == 1000000000

SECS_PER_DAY == 86400

DateTime(secs, nanos) == <<secs, nanos>>

Duration(secs, nanos) == <<secs, nanos>>

\* Gregorian leap years, as Utc.with_ymd_and_hms counts them
IsLeapYear(y) == (y % 4 = 0 /\ y % 100 # 0) \/ y % 400 = 0

RECURSIVE DaysBeforeYear(_)
\* the days from 1970-01-01 to the first of January of year y
DaysBeforeYear(y) ==
    IF y = 1970 THEN 0
    ELSE DaysBeforeYear(y - 1) + (IF IsLeapYear(y - 1) THEN 366 ELSE 365)

\* Utc.with_ymd_and_hms(2001, 1, 1, 0, 0, 0).unwrap().timestamp()
get_offset == DaysBeforeYear(2001) * SECS_PER_DAY

\* end - start (DateTime::signed_duration_since)
signed_duration_since(end_t, start_t) ==
    LET secs == end_t[1] - start_t[1]
        nanos == end_t[2] - start_t[2]
    IN  IF nanos < 0 THEN Duration(secs - 1, nanos + NANOS_PER_SEC)
        ELSE Duration(secs, nanos)

\* Duration::num_seconds: the whole seconds, rounded toward zero
num_seconds(d) == IF d[1] < 0 /\ d[2] > 0 THEN d[1] + 1 ELSE d[1]

DigitChar(d) == CHOOSE c \in Digits : DigitVal(c) = d

RECURSIVE to_string(_)
\* format!("{n}") of a non-negative integer
to_string(n) ==
    IF n < 10 THEN <<DigitChar(n)>> ELSE Append(to_string(n \div 10), DigitChar(n % 10))

metric_plural(n, singular, plural) == plural

\* match n { 1 => singular, _ => plural }
metric(n, singular, plural) == IF n = 1 THEN singular ELSE plural

\* format!("{n} {metric}")
format_component(n, unit) == to_string(n) \o <<" ">> \o unit

\* one `if n != 0 { .. }` block of readable_diff after the first
push_component(out_s, n, singular, plural) ==
    IF n # 0
    THEN (IF out_s # <<>> THEN out_s \o SEPARATOR ELSE out_s)
             \o format_component(n, metric(n, singular, plural))
    ELSE out_s

\* the string readable_diff builds for seconds >= 0, where the i64 `/` and `%` of
\* Rust are \div and %
diff_string(seconds) ==
    LET days == seconds \div 86400
        hours == (seconds % 86400) \div 3600
        minutes == ((seconds % 86400) % 3600) \div 60
        secs == ((seconds % 86400) % 3600) % 60
        with_days ==
            IF days # 0
            THEN format_component(days, metric(days, <<"d", "a", "y">>,
                                               <<"d", "a", "y", "s">>))
            ELSE <<>>
        with_hours == push_component(with_days, hours, <<"h", "o", "u", "r">>,
                                     <<"h", "o", "u", "r", "s">>)
        with_minutes ==
            push_component(with_hours, minutes,
                           <<"m", "i", "n", "u", "t", "e">>,
                           <<"m", "i", "n", "u", "t", "e", "s">>)
    IN  push_component(with_minutes, secs, <<"s", "e", "c", "o", "n", "d">>,
                       <<"s", "e", "c", "o", "n", "d", "s">>)

readable_diff_no_escape(start_t, end_t) ==
    LET seconds == num_seconds(signed_duration_since(end_t, start_t))
    IN  IF seconds < 0 THEN Some(<<>>) ELSE Some(diff_string(seconds))

readable_diff(start_t, end_t) ==
    LET seconds == num_seconds(signed_duration_since(end_t, start_t))
    IN  IF seconds < 0 THEN None ELSE Some(diff_string(seconds))

\* An i64 of nanoseconds is wider than a number of the model: it is the pair
\* <<q, r>> of the value q * TIMESTAMP_FACTOR + r with r in 0..TIMESTAMP_FACTOR-1.
Stamp(q, r) == <<q, r>>

\* date_stamp / TIMESTAMP_FACTOR: the division of i64 rounds toward zero
div_factor(date_stamp) ==
    IF date_stamp[1] < 0 /\ date_stamp[2] > 0 THEN date_stamp[1] + 1
    ELSE date_stamp[1]

\* date_stamp != 0
is_set(date_stamp) == date_stamp # Stamp(0, 0)

\* Message::get_local_time.  from_timestamp_opt succeeds for every i64 divided by
\* TIMESTAMP_FACTOR; Local.with_ymd_and_hms(..).single() is None when the time
\* zone maps the wall-clock time of the instant to no or to two instants (tz).
get_local_time(date_stamp, offset, tz) ==
    LET utc_stamp == div_factor(date_stamp) + offset
    IN  IF utc_stamp \in tz THEN None ELSE Some(DateTime(utc_stamp, 0))

\* `a?` and `b?` in an argument list: None as soon as one of them is None
try_readable_diff(a, b) ==
    IF ~is_some(a) THEN None
    ELSE IF ~is_some(b) THEN None
    ELSE readable_diff(a[2], b[2])

time_until_read_ignores_sender(from_me, d, d_read, d_delivered, offset, tz) ==
    IF is_set(d_read) /\ is_set(d)
    THEN try_readable_diff(get_local_time(d, offset, tz),
                           get_local_time(d_read, offset, tz))
    ELSE IF is_set(d_delivered) /\ is_set(d)
    THEN try_readable_diff(get_local_time(d, offset, tz),
                           get_local_time(d_delivered, offset, tz))
    ELSE None

time_until_read(from_me, d, d_read, d_delivered, offset, tz) ==
    IF ~from_me /\ is_set(d_read) /\ is_set(d)
    THEN try_readable_diff(get_local_time(d, offset, tz),
                           get_local_time(d_read, offset, tz))
    ELSE IF from_me /\ is_set(d_delivered) /\ is_set(d)
    THEN try_readable_diff(get_local_time(d, offset, tz),
                           get_local_time(d_delivered, offset, tz))
    ELSE None

----------------------------------------------------------------------------
(* The message table: Table::from_row, Table::extract, Cacheable::cache,       *)
(* Message::get_reactions, Message::get_replies.  A table is the sequence of   *)
(* the rows of `message` in the order a SELECT without ORDER BY yields them; a *)
(* row has the columns the queries and the methods read, and `decode`: "ok",   *)
(* or the rusqlite error that from_row gets for it.  Guids are plain           *)
(* identifiers, so that the quoted "{guid}" in a query is a string literal.    *)

\* Result<T, E>
ResultOk(v) == <<"Result::Ok", v>>

ResultErr(why) == <<"Result::Err", why>>

is_ok(r) == r[1] = "Result::Ok"

\* Message::from_row: the Message of the columns, or the error of a row.get(..)?
from_row(row) ==
    IF row.decode = "ok"
    THEN ResultOk([guid |-> row.guid,
                   text |-> row.text,
                   date |-> row.date,
                   associated_message_guid |-> row.associated_message_guid,
                   associated_message_type |-> row.associated_message_type,
                   balloon_bundle_id |-> row.balloon_bundle_id,
                   thread_originator_guid |-> row.thread_originator_guid,
                   thread_originator_part |-> row.thread_originator_part])
    ELSE ResultErr(row.decode)

\* Message::extract
extract(message) ==
    IF is_ok(message) THEN message
    ELSE ResultErr(<<"Message query error: ", message[2]>>)

\* self.variant() of a decoded message: Ok(variant), or Panic
variant_of(msg) ==
    variant(msg.associated_message_type, msg.balloon_bundle_id, msg.text,
            msg.associated_message_guid)

is_reaction_only(msg) ==
    LET v == variant_of(msg)
    IN  IF IsPanic(v) THEN Panic ELSE Ok(v[2][1] = "Reaction")

\* Message::is_reaction (with is_sticker): Ok(bool), or Panic
is_reaction(msg) ==
    LET v == variant_of(msg)
    IN  IF IsPanic(v) THEN Panic
        ELSE Ok(v[2][1] = "Reaction"
                    \/ (v[2][1] = "Sticker" /\ is_some(msg.associated_message_guid)))

has_replies_or_none(n) == n >= 0

\* Message::has_replies
has_replies(n) == n > 0

\* HashMap::new()
EmptyMap == <<>>

\* HashMap::get
map_get(map, k) == IF k \in DOMAIN map THEN Some(map[k]) ELSE None

\* match map.get_mut(k) { Some(v) => v.push(x), None => map.insert(k, vec![x]) }
map_push(map, k, x) ==
    IF k \in DOMAIN map THEN [map EXCEPT ![k] = Append(@, x)]
    ELSE map @@ (k :> <<x>>)

\* m.date of row a is not after m.date of row b
date_le(a, b) ==
    a.date[1] < b.date[1] \/ (a.date[1] = b.date[1] /\ a.date[2] <= b.date[2])

\* ORDER BY m.date: the rows in every order that is ascending in date (SQL does not
\* say in which order rows of equal date come)
OrderByDate(rows) ==
    LET n == Len(rows)
        orders == {p \in [1..n -> 1..n] :
                       /\ \A i, j \in 1..n : i # j => p[i] # p[j]
                       /\ \A i, j \in 1..n : i < j => date_le(rows[p[i]], rows[p[j]])}
    IN  {[i \in 1..n |-> rows[p[i]]] : p \in orders}

RECURSIVE cache_loop(_, _, _)
\* the loop of cache from row i on: Ok(Result), or Panic
cache_loop(messages, i, map) ==
    IF i > Len(messages) THEN Ok(ResultOk(map))
    ELSE LET reaction == extract(from_row(messages[i]))
         IN  IF ~is_ok(reaction) THEN Ok(reaction)
             ELSE LET is_r == is_reaction(reaction[2])
                      target == clean_associated_guid(reaction[2].associated_message_guid)
                  IN  IF IsPanic(is_r) THEN Panic
                      ELSE IF ~is_r[2] THEN cache_loop(messages, i + 1, map)
                      ELSE IF IsPanic(target) THEN Panic
                      ELSE IF is_some(target[2])
                      THEN cache_loop(messages, i + 1,
                                      map_push(map, target[2][2][2], reaction[2].guid))
                      ELSE cache_loop(messages, i + 1, map)

assoc_not_null(row) == is_some(row.associated_message_guid)

\* Cacheable::cache for Message: WHERE m.associated_message_guid NOT NULL
cache(table) == cache_loop(SelectSeq(table, assoc_not_null), 1, EmptyMap)

variant_index_zero(v) == 0

\* the idx of Variant::Reaction(idx, _, _) | Variant::Sticker(idx)
variant_index(v) == v[2]

RECURSIVE reactions_loop(_, _, _)
\* the loop of get_reactions from row i on: Ok(Result), or Panic
reactions_loop(messages, i, out_h) ==
    IF i > Len(messages) THEN Ok(ResultOk(out_h))
    ELSE LET msg == extract(from_row(messages[i]))
         IN  IF ~is_ok(msg) THEN Ok(msg)
             ELSE LET v == variant_of(msg[2])
                  IN  IF IsPanic(v) THEN Panic
                      ELSE IF v[2][1] \in {"Reaction", "Sticker"}
                      THEN reactions_loop(messages, i + 1,
                                          map_push(out_h, variant_index(v[2]), msg[2]))
                      ELSE reactions_loop(messages, i + 1, out_h)

get_reactions_whole_table(own_guid, table, cache_map) ==
    LET rxs == map_get(cache_map, own_guid)
    IN  IF is_some(rxs)
        THEN {reactions_loop(messages, 1, EmptyMap) : messages \in OrderByDate(table)}
        ELSE {Ok(ResultOk(EmptyMap))}

\* Message::get_reactions: the outcomes the fetch orders of
\* WHERE m.guid IN (rxs) ORDER BY m.date allow
get_reactions(own_guid, table, cache_map) ==
    LET rxs == map_get(cache_map, own_guid)
        in_rxs(row) == \E k \in 1..Len(rxs[2]) : row.guid = rxs[2][k]
    IN  IF is_some(rxs)
        THEN {reactions_loop(messages, 1, EmptyMap) :
                  messages \in OrderByDate(SelectSeq(table, in_rxs))}
        ELSE {Ok(ResultOk(EmptyMap))}

RECURSIVE replies_loop(_, _, _)
\* the loop of get_replies from row i on: Ok(Result), or Panic
replies_loop(messages, i, out_h) ==
    IF i > Len(messages) THEN Ok(ResultOk(out_h))
    ELSE LET m == extract(from_row(messages[i]))
         IN  IF ~is_ok(m) THEN Ok(m)
             ELSE LET idx == get_reply_index(m[2].thread_originator_part)
                  IN  IF IsPanic(idx) THEN Panic
                      ELSE replies_loop(messages, i + 1, map_push(out_h, idx[2], m[2]))

\* Message::get_replies: the outcomes the fetch orders of
\* WHERE m.thread_originator_guid = "{guid}" ORDER BY m.date allow
get_replies(own_guid, n_replies, table) ==
    LET replies_to(row) == row.thread_originator_guid = Some(own_guid)
    IN  IF has_replies(n_replies)
        THEN {replies_loop(messages, 1, EmptyMap) :
                  messages \in OrderByDate(SelectSeq(table, replies_to))}
        ELSE {Ok(ResultOk(EmptyMap))}

----------------------------------------------------------------------------
(* Inputs *)

MaxTextLen == 4

MaxGuidLen == 4

MaxBundleLen == 5

MaxPartLen == 3

SeqsUpTo(S, n) == UNION {[1..m -> S] : m \in 0..n}

OptionOf(S) == {None} \cup {Some(x) : x \in S}

TextChars == {"a", " ", ATTACHMENT_CHAR, APP_CHAR, EMOJI}

\* the texts of the tests of messages.rs
TestTexts ==
    { <<"H", "e", "l", "l", "o", " ", "w", "o", "r", "l", "d">>,
      <<EMOJI, EMOJI, EMOJI>>,
      <<ATTACHMENT_CHAR, "H", "e", "l", "l", "o", " ", "w", "o", "r", "l", "d">>,
      <<"O", "n", "e", APP_CHAR, ATTACHMENT_CHAR, "T", "w", "o", ATTACHMENT_CHAR,
        "T", "h", "r", "e", "e", ATTACHMENT_CHAR, "f", "o", "u", "r">>,
      <<APP_CHAR, ATTACHMENT_CHAR, "T", "w", "o", ATTACHMENT_CHAR,
        "T", "h", "r", "e", "e", ATTACHMENT_CHAR>> }

Texts == SeqsUpTo(TextChars, MaxTextLen) \cup TestTexts

GuidChars == {"p", "b", ":", "/", "2", "A"}

\* association identifiers of the documentation, and longer ones of each format
SampleGuids ==
    { <<"p", ":", "2", "/", "A", "B", "C", "D">>,
      <<"b", "p", ":", "X", "Y", "Z">>,
      <<"P", "L", "A", "I", "N", "G", "U", "I", "D">>,
      <<"p", ":", "0", "/", "A", "/", "B">>,
      <<"p", ":", "1", "2", "/", "A">>,
      <<"p", ":", "-", "1", "/", "A">>,
      <<"p", ":", "p", ":", "2", "/", "A">>,
      <<"p", ":", "2">> }

Guids == SeqsUpTo(GuidChars, MaxGuidLen) \cup SampleGuids

BundleChars == {":", "x", URL_BALLOON}

\* the bundle identifiers of the tests of messages.rs
TestBundles ==
    { <<HANDWRITING>>, <<URL_BALLOON>>,
      <<PLUGIN, ":", APPLE_TEAM, ":", APPLE_PAY>>,
      <<PLUGIN, ":", OPENTABLE_TEAM, ":", OPENTABLE>>,
      <<PLUGIN, ":", APPLE_TEAM, ":", FITNESS>>,
      <<PLUGIN, ":", APPLE_TEAM, ":", SLIDESHOW>> }

Bundles == SeqsUpTo(BundleChars, MaxBundleLen) \cup TestBundles

PartChars == {"1", "0", ":", "a", "-", "+"}

Parts == SeqsUpTo(PartChars, MaxPartLen)

\* values of associated_message_type (an i32): every code variant names, and codes around them
Codes == (-1..4) \cup (999..1001) \cup (1999..2006) \cup (2999..3006) \cup {9999}

----------------------------------------------------------------------------
(* The state: the fields of one Message, the last method called on it and what *)
(* it returned.  A Message is immutable once built.                            *)

\* messages that differ in text and in having a bundle identifier
InitBody ==
    /\ text \in OptionOf(Texts)
    /\ balloon_bundle_id \in {None, Some(<<"x">>), Some(<<"x", ":", "x">>)}
    /\ associated_message_guid = None
    /\ associated_message_type = 0
    /\ thread_originator_part = None

\* messages that differ in the association identifier
InitGuid ==
    /\ text = None
    /\ balloon_bundle_id = None
    /\ associated_message_guid \in OptionOf(Guids)
    /\ associated_message_type \in {0, 1000, 2002, 3004}
    /\ thread_originator_part = None

\* messages that differ in the type code
InitCode ==
    /\ text = None
    /\ balloon_bundle_id \in {None, Some(<<URL_BALLOON>>)}
    /\ associated_message_guid \in OptionOf(SampleGuids)
    /\ associated_message_type \in Codes
    /\ thread_originator_part = None

\* messages that differ in the bundle identifier
InitBundle ==
    /\ text \in {None, Some(<<>>), Some(<<"a">>), Some(<<MUSIC_PREFIX>>),
                 Some(<<MUSIC_PREFIX, "a">>), Some(<<"a", MUSIC_PREFIX>>)}
    /\ balloon_bundle_id \in OptionOf(Bundles)
    /\ associated_message_guid = None
    /\ associated_message_type \in {0, 2, 3, 1000}
    /\ thread_originator_part = None

\* messages that differ in the reply specifier
InitPart ==
    /\ text = None
    /\ balloon_bundle_id = None
    /\ associated_message_guid = None
    /\ associated_message_type = 0
    /\ thread_originator_part \in OptionOf(Parts)

\* the fields of blank() that no method of this specification reads
BlankDates ==
    /\ date = Stamp(0, 0)
    /\ date_read = Stamp(0, 0)
    /\ date_delivered = Stamp(0, 0)
    /\ is_from_me = FALSE

BlankIdentity == self_guid = <<>> /\ num_replies = 0

\* no table, an empty cache
NoStore == db = <<>> /\ reactions = <<>>

NoDiff ==
    /\ diff_start = DateTime(0, 0)
    /\ diff_end = DateTime(0, 0)
    /\ ambiguous = {}

Init ==
    /\ InitBody \/ InitGuid \/ InitCode \/ InitBundle \/ InitPart
    /\ BlankIdentity /\ BlankDates /\ NoStore /\ NoDiff
    /\ op = "new"
    /\ ret = Ok(None)

\* a method is called on a message unless an earlier call panicked
CallBody ==
    /\ ~IsPanic(ret)
    /\ op' = "body"
    /\ ret' = body(balloon_bundle_id, text)
    /\ UNCHANGED inputs

CallVariant ==
    /\ ~IsPanic(ret)
    /\ op' = "variant"
    /\ ret' = variant(associated_message_type, balloon_bundle_id, text,
                      associated_message_guid)
    /\ UNCHANGED inputs

CallCleanAssociatedGuid ==
    /\ ~IsPanic(ret)
    /\ op' = "clean_associated_guid"
    /\ ret' = clean_associated_guid(associated_message_guid)
    /\ UNCHANGED inputs

CallGetReplyIndex ==
    /\ ~IsPanic(ret)
    /\ op' = "get_reply_index"
    /\ ret' = get_reply_index(thread_originator_part)
    /\ UNCHANGED inputs

CallParseBalloonBundleId ==
    /\ ~IsPanic(ret)
    /\ op' = "parse_balloon_bundle_id"
    /\ ret' = Ok(parse_balloon_bundle_id(balloon_bundle_id))
    /\ UNCHANGED inputs

Next ==
    \/ CallBody
    \/ CallVariant
    \/ CallCleanAssociatedGuid
    \/ CallGetReplyIndex
    \/ CallParseBalloonBundleId

Spec == Init /\ [][Next]_vars

----------------------------------------------------------------------------
(* The dates: calls of readable_diff and of Message::time_until_read *)

MaxDays == 2

MaxStampSeconds == 2

\* 2020-05-20 09:10:11 UTC, the start of the tests of dates.rs
TestStart == DaysBeforeYear(2020) * SECS_PER_DAY + 140 * SECS_PER_DAY + 33011

\* the differences of the tests of dates.rs and the units around a carry
Gaps ==
    { d * SECS_PER_DAY + h * 3600 + m * 60 + s :
          d \in (0..MaxDays) \cup {10, 61, 791}, h \in {0, 1, 5, 23},
          m \in {0, 1, 22, 59}, s \in {0, 1, 34, 59} }

SubSeconds == {0, 12000000, 500000000}

DiffStarts == {DateTime(TestStart, n) : n \in SubSeconds}

DiffEnds ==
    {DateTime(TestStart + g, n) : g \in Gaps \cup {-1, -19, -SECS_PER_DAY},
                                  n \in SubSeconds}

\* the raw dates of test can_get_time_date_read_after_date
TestStamps == {Stamp(674526582, 885055488), Stamp(674530231, 992568192)}

\* raw dates: unset, within a few seconds of the epoch of 2001 and before it, the
\* dates of the tests
Stamps ==
    {Stamp(q, r) : q \in (0..MaxStampSeconds) \cup {3661}, r \in {0, 1, 500000000}}
        \cup {Stamp(-1, 500000000), Stamp(-1, 0)} \cup TestStamps

BlankContent ==
    /\ text = None
    /\ balloon_bundle_id = None
    /\ associated_message_guid = None
    /\ associated_message_type = 0
    /\ thread_originator_part = None

\* pairs of instants with sub-second parts
InitDiff ==
    /\ BlankDates
    /\ diff_start \in DiffStarts
    /\ diff_end \in DiffEnds
    /\ ambiguous = {}

\* messages that differ in their dates and sender, in a time zone that may have one
\* instant of the model in a repeated or skipped hour
InitUntil ==
    /\ date \in Stamps
    /\ date_read \in Stamps
    /\ date_delivered \in Stamps
    /\ is_from_me \in BOOLEAN
    /\ diff_start = DateTime(0, 0)
    /\ diff_end = DateTime(0, 0)
    /\ ambiguous \in {{}} \cup {{get_offset + q} : q \in {0, 1, 674530231}}

InitDates ==
    /\ InitDiff \/ InitUntil
    /\ BlankContent /\ BlankIdentity /\ NoStore
    /\ op = "new"
    /\ ret = Ok(None)

CallReadableDiff ==
    /\ op' = "readable_diff"
    /\ ret' = Ok(readable_diff(diff_start, diff_end))
    /\ UNCHANGED inputs

CallTimeUntilRead ==
    /\ op' = "time_until_read"
    /\ ret' = Ok(time_until_read(is_from_me, date, date_read, date_delivered,
                                 get_offset, ambiguous))
    /\ UNCHANGED inputs

NextDates ==
    \/ CallReadableDiff
    \/ CallTimeUntilRead

SpecDates == InitDates /\ [][NextDates]_vars

----------------------------------------------------------------------------
(* The table: calls of cache, get_reactions and get_replies *)

MaxRows == 2

\* the guid of the message the methods are called on, and another guid
TargetGuid == <<"M">>

OtherGuid == <<"N">>

\* the guid of the row at place i of the table
RowGuid(i) == <<"R", DigitChar(i)>>

Row(g, d, assoc, code, tog, part, dec) ==
    [guid |-> g, text |-> None, date |-> d, associated_message_guid |-> assoc,
     associated_message_type |-> code, balloon_bundle_id |-> None,
     thread_originator_guid |-> tog, thread_originator_part |-> part,
     decode |-> dec]

RowDates == {Stamp(1, 0), Stamp(2, 0)}

\* errors of row.get(..)?
DecodeErrors == {"InvalidColumnType", "IntegralValueOutOfRange"}

\* association identifiers of the three formats that name the two guids, and a
\* 'p:' identifier with no target
RowAssociations ==
    {None, Some(TargetGuid), Some(<<"p", ":", "1", "/">> \o TargetGuid),
     Some(<<"b", "p", ":">> \o OtherGuid), Some(<<"p", ":", "1">>)}

\* rows that may react to a message
ReactionRows(i) ==
    {Row(RowGuid(i), d, assoc, code, None, None, "ok") :
         d \in RowDates, assoc \in RowAssociations, code \in {0, 1000, 2001}}
        \cup {Row(RowGuid(i), Stamp(1, 0), Some(TargetGuid), 2001, None, None, why) :
                  why \in DecodeErrors}

\* rows that may reply to a message
ReplyRows(i) ==
    {Row(RowGuid(i), d, None, 0, tog, part, "ok") :
         d \in RowDates, tog \in {None, Some(TargetGuid), Some(OtherGuid)},
         part \in {None, Some(<<"0", ":", "0">>), Some(<<"1", ":", "0">>),
                   Some(<<"a">>)}}
        \cup {Row(RowGuid(i), Stamp(1, 0), None, 0, Some(TargetGuid),
                  Some(<<"0", ":", "0">>), why) : why \in DecodeErrors}

\* the rows that may stand at place i of a table of reactions or of replies
RowsAt(kind, i) == IF kind = "reactions" THEN ReactionRows(i) ELSE ReplyRows(i)

RECURSIVE Tables(_, _)
\* the tables of n rows of a kind
Tables(kind, n) ==
    IF n = 0 THEN {<<>>}
    ELSE {Append(t, r) : t \in Tables(kind, n - 1), r \in RowsAt(kind, n)}

\* the cache of a table when cache returns one, the guids of all rows under
\* TargetGuid in table order and in the reverse order, no entry at all
Caches(table) ==
    LET built == cache(table)
        n == Len(table)
    IN  {EmptyMap,
         TargetGuid :> [i \in 1..n |-> table[i].guid],
         TargetGuid :> [i \in 1..n |-> table[n + 1 - i].guid]}
            \cup (IF ~IsPanic(built) /\ is_ok(built[2]) THEN {built[2][2]} ELSE {})

\* a table of rows that differ in what they react to, and a cache
InitReactions ==
    /\ db \in UNION {Tables("reactions", n) : n \in 0..MaxRows}
    /\ reactions \in Caches(db)
    /\ num_replies = 0

\* a table of rows that differ in what they reply to, and a reply count that need not
\* be the count of the table
InitReplies ==
    /\ db \in UNION {Tables("replies", n) : n \in 0..MaxRows}
    /\ reactions = EmptyMap
    /\ num_replies \in -1..2

InitStore ==
    /\ InitReactions \/ InitReplies
    /\ self_guid = TargetGuid
    /\ BlankContent /\ BlankDates /\ NoDiff
    /\ op = "new"
    /\ ret = Ok(None)

CallCache ==
    /\ ~IsPanic(ret)
    /\ op' = "cache"
    /\ ret' = cache(db)
    /\ UNCHANGED inputs

CallGetReactions ==
    /\ ~IsPanic(ret)
    /\ op' = "get_reactions"
    /\ ret' \in get_reactions(self_guid, db, reactions)
    /\ UNCHANGED inputs

CallGetReplies ==
    /\ ~IsPanic(ret)
    /\ op' = "get_replies"
    /\ ret' \in get_replies(self_guid, num_replies, db)
    /\ UNCHANGED inputs

NextStore ==
    \/ CallCache
    \/ CallGetReactions
    \/ CallGetReplies

SpecStore == InitStore /\ [][NextStore]_vars

----------------------------------------------------------------------------
(* What the specification says of a string, stated without the code's cursors *)

\* the positions of the characters of s that satisfy Test
Positions(s, Test(_)) == {i \in 1..Len(s) : Test(s[i])}

NotWhitespace(c) == c # " "

IsSentinel(c) == c \in {"FFFC", "FFFD"}

Min(S) == CHOOSE x \in S : \A y \in S : x <= y

Max(S) == CHOOSE x \in S : \A y \in S : x >= y

\* s without its leading and trailing whitespace
Stripped(s) ==
    LET keep == Positions(s, NotWhitespace)
    IN  IF keep = {} THEN <<>> ELSE SubSeq(s, Min(keep), Max(keep))

HasSentinel(s) == Positions(s, IsSentinel) # {}

\* the segment of the run of characters s[from..to], if its stripped content is not empty
RunSegment(s, from, to) ==
    IF Stripped(SubSeq(s, from, to)) = <<>>
    THEN <<>>
    ELSE <<BubbleText(Stripped(SubSeq(s, from, to)))>>

Placeholder(c) == IF c = "FFFC" THEN BubbleAttachment ELSE BubbleApp

RECURSIVE ExpectedSegments(_, _)
\* the segments of s from position from on: each run up to the next sentinel, the
\* placeholder of that sentinel, and so on to the end of s
ExpectedSegments(s, from) ==
    LET ahead == {i \in Positions(s, IsSentinel) : i >= from}
    IN  IF ahead = {}
        THEN RunSegment(s, from, Len(s))
        ELSE RunSegment(s, from, Min(ahead) - 1) \o <<Placeholder(s[Min(ahead)])>>
                 \o ExpectedSegments(s, Min(ahead) + 1)

IsEmptyText(b) == b[1] = "Text" /\ Stripped(b[2]) = <<>>

IsFilledText(b) == ~IsEmptyText(b)

Returned(name) == op = name /\ ~IsPanic(ret)

----------------------------------------------------------------------------
(* Message::body *)

\* C1: with no bundle identifier and a text that holds a sentinel, every run of
\* non-sentinel characters with non-empty stripped content gives one Text segment, the
\* stripped run, in order between the placeholders: the non-empty segments of body are
\* the segments the text describes.
C1_EveryRunEmitted ==
    (op = "body" /\ balloon_bundle_id = None /\ is_some(text) /\ HasSentinel(text[2]))
        => /\ ~IsPanic(ret)
           /\ SelectSeq(ret[2], IsFilledText) = ExpectedSegments(text[2], 1)

\* C2: body never returns a Text segment whose stripped content is empty.
C2_NoEmptyText ==
    op = "body"
        => /\ ~IsPanic(ret)
           /\ \A i \in 1..Len(ret[2]) : ~IsEmptyText(ret[2][i])

\* C3 as stated: with no bundle identifier, every text without a sentinel, the empty
\* text included, gives exactly [Text(trim(text))].
C3_AnyPlainTextOneSegment ==
    (op = "body" /\ balloon_bundle_id = None /\ is_some(text) /\ ~HasSentinel(text[2]))
        => ret = Ok(<<BubbleText(Stripped(text[2]))>>)

\* C3 amended: with no bundle identifier, every non-empty text without a sentinel
\* (whitespace-only included) gives exactly [Text(trim(text))], and the empty text gives
\* the empty sequence.
C3_PlainTextOneSegment ==
    (op = "body" /\ balloon_bundle_id = None /\ is_some(text) /\ ~HasSentinel(text[2]))
        => IF text[2] = <<>>
           THEN ret = Ok(<<>>)
           ELSE ret = Ok(<<BubbleText(Stripped(text[2]))>>)

\* a plain text with whitespace on both sides of its content was segmented
C3_Witness ==
    /\ Returned("body") /\ balloon_bundle_id = None /\ is_some(text)
    /\ ~HasSentinel(text[2])
    /\ Len(text[2]) >= 3 /\ Head(text[2]) = " " /\ text[2][Len(text[2])] = " "
    /\ Len(ret[2]) = 1 /\ ret[2][1][2] # <<>> /\ ret[2][1][2] # text[2]

\* C4: whenever a bundle identifier is present, body returns exactly [App], whatever
\* the text.
C4_BundleGivesApp ==
    (op = "body" /\ is_some(balloon_bundle_id)) => ret = Ok(<<BubbleApp>>)

\* body was called with a bundle identifier that resolves to no application and a
\* text that holds sentinels and characters
C4_Witness ==
    /\ Returned("body") /\ is_some(balloon_bundle_id)
    /\ parse_balloon_bundle_id(balloon_bundle_id) = None
    /\ is_some(text) /\ HasSentinel(text[2]) /\ Stripped(text[2]) # <<>>
    /\ \E i \in 1..Len(text[2]) : text[2][i] = "a"

----------------------------------------------------------------------------
(* What the specification says of the identifiers *)

\* the position of the first c in s, or Len(s) + 1
FirstPos(s, c) ==
    IF \E i \in 1..Len(s) : s[i] = c
    THEN Min({i \in 1..Len(s) : s[i] = c})
    ELSE Len(s) + 1

BeforeFirst(s, c) == SubSeq(s, 1, FirstPos(s, c) - 1)

AfterFirst(s, c) == SubSeq(s, FirstPos(s, c) + 1, Len(s))

\* s is a non-negative integer in decimal digits
IsNat(s) == s # <<>> /\ \A i \in 1..Len(s) : s[i] \in Digits

RECURSIVE NatValue(_)
NatValue(s) ==
    IF s = <<>> THEN 0
    ELSE NatValue(SubSeq(s, 1, Len(s) - 1)) * 10 + DigitVal(s[Len(s)])

\* parse, or default to zero
LenientIndex(s) == IF IsNat(s) THEN NatValue(s) ELSE 0

HasPrefixP(g) == Len(g) >= 2 /\ g[1] = "p" /\ g[2] = ":"

HasPrefixBP(g) == Len(g) >= 3 /\ g[1] = "b" /\ g[2] = "p" /\ g[3] = ":"

\* the characters of a 'p:' identifier between the prefix and the first '/'
IndexPart(g) == SubSeq(g, 3, FirstPos(g, "/") - 1)

\* the sub-part index an association identifier encodes
ExpectedIndex(guid_opt) ==
    IF guid_opt = None THEN 0
    ELSE IF HasPrefixP(guid_opt[2]) THEN LenientIndex(IndexPart(guid_opt[2]))
    ELSE 0

----------------------------------------------------------------------------
(* Message::variant, clean_associated_guid, get_reply_index *)

\* C5: variant with a reaction or sticker code returns the stated variant for any
\* association identifier, without failing: 2002 gives Reaction(_, true, Disliked),
\* 3004 gives Reaction(_, false, Emphasized), 1000 gives Sticker(_); an index that
\* holds no digit gives index 0.
C5_ReactionForAnyGuid ==
    (op = "variant" /\ associated_message_type \in {1000, 2002, 3004})
        => /\ ~IsPanic(ret)
           /\ associated_message_type = 2002
                => ret[2][1] = "Reaction" /\ ret[2][3] = TRUE /\ ret[2][4] = "Disliked"
           /\ associated_message_type = 3004
                => ret[2][1] = "Reaction" /\ ret[2][3] = FALSE /\ ret[2][4] = "Emphasized"
           /\ associated_message_type = 1000 => ret[2][1] = "Sticker"
           /\ ( /\ is_some(associated_message_guid)
                /\ HasPrefixP(associated_message_guid[2])
                /\ Positions(IndexPart(associated_message_guid[2]), LAMBDA c : c \in Digits) = {} )
                => ret[2][2] = 0

\* C6: get_reply_index returns the integer before the first ':' of the specifier, and
\* 0, without failing, when the specifier is absent or that part is no non-negative
\* integer (empty, letters, a negative number).
C6_ReplyIndexLenient ==
    op = "get_reply_index"
        => IF thread_originator_part = None
           THEN ret = Ok(0)
           ELSE LET part == BeforeFirst(thread_originator_part[2], ":")
                IN  \/ ret = Ok(LenientIndex(part))
                    \/ part # <<>> /\ Head(part) = "+" /\ ~IsPanic(ret)

\* C7: on 'p:<index>/<target>' clean_associated_guid returns the number between 'p:'
\* and the first '/', or 0 when that is no non-negative integer, and everything after
\* the first '/' as the target, also when the target holds a '/'.
C7_IndexAndWholeTarget ==
    ( /\ op = "clean_associated_guid" /\ is_some(associated_message_guid)
      /\ HasPrefixP(associated_message_guid[2])
      /\ FirstPos(associated_message_guid[2], "/") <= Len(associated_message_guid[2]) )
        => ret = Ok(Some(<<LenientIndex(IndexPart(associated_message_guid[2])),
                           AfterFirst(associated_message_guid[2], "/")>>))

\* C8: the formats exclude each other: 'bp:<target>' gives (0, target); an identifier
\* with neither prefix gives (0, the identifier); 'p:2/ABCD' gives (2, 'ABCD'); an
\* absent identifier gives None, and none of these fails.
C8_ThreeFormats ==
    op = "clean_associated_guid"
        => IF associated_message_guid = None
           THEN ret = Ok(None)
           ELSE LET g == associated_message_guid[2]
                IN  /\ ~(HasPrefixP(g) /\ HasPrefixBP(g))
                    /\ HasPrefixBP(g) => ret = Ok(Some(<<0, SubSeq(g, 4, Len(g))>>))
                    /\ (~HasPrefixP(g) /\ ~HasPrefixBP(g)) => ret = Ok(Some(<<0, g>>))
                    /\ g = <<"p", ":", "2", "/", "A", "B", "C", "D">>
                         => ret = Ok(Some(<<2, <<"A", "B", "C", "D">>>>))

\* a 'bp:' identifier whose target itself looks like a 'p:' identifier was decoded
C8_Witness ==
    /\ Returned("clean_associated_guid") /\ is_some(associated_message_guid)
    /\ HasPrefixBP(associated_message_guid[2])
    /\ HasPrefixP(Tail(associated_message_guid[2]))
    /\ Len(associated_message_guid[2]) > 3
    /\ ret[2][2][1] = 0 /\ Len(ret[2][2][2]) = Len(associated_message_guid[2]) - 3

KindOf(digit) ==
    CASE digit = 0 -> "Loved" [] digit = 1 -> "Liked" [] digit = 2 -> "Disliked"
      [] digit = 3 -> "Laughed" [] digit = 4 -> "Emphasized" [] digit = 5 -> "Questioned"

\* C9: variant is a total function of the type code: 2000..2005 give
\* Reaction(index, true, kind) and 3000..3005 give Reaction(index, false, kind), the
\* kind by the last digit; 1000 gives Sticker(index); the index is the one the
\* association identifier encodes; a code outside 0, 2, 3, 1000, 2000..2005,
\* 3000..3005 gives Unknown(code).
C9_VariantTotal ==
    op = "variant"
        => LET code == associated_message_type
               index == ExpectedIndex(associated_message_guid)
           IN  /\ ~IsPanic(ret)
               /\ code \in 2000..2005
                    => ret = Ok(VariantReaction(index, TRUE, KindOf(code - 2000)))
               /\ code \in 3000..3005
                    => ret = Ok(VariantReaction(index, FALSE, KindOf(code - 3000)))
               /\ code = 1000 => ret = Ok(VariantSticker(index))
               /\ code \notin ({0, 2, 3, 1000} \cup (2000..2005) \cup (3000..3005))
                    => ret = Ok(VariantUnknown(code))

----------------------------------------------------------------------------
(* Message::parse_balloon_bundle_id *)

IsColon(c) == c = ":"

\* the position of the n-th ':' of s, or Len(s) + 1 when s has fewer
NthColon(s, n) ==
    LET colons == Positions(s, IsColon)
    IN  IF Cardinality(colons) >= n
        THEN CHOOSE i \in colons : Cardinality({j \in colons : j < i}) = n - 1
        ELSE Len(s) + 1

\* the effective identifier by the number of parts: one part, that part; three or
\* more, the third; two, none
ExpectedBundle(bundle_opt) ==
    IF bundle_opt = None THEN None
    ELSE LET s == bundle_opt[2]
             n == Cardinality(Positions(s, IsColon)) + 1
         IN  IF n = 1 THEN Some(s)
             ELSE IF n = 2 THEN None
             ELSE Some(SubSeq(s, NthColon(s, 2) + 1, NthColon(s, 3) - 1))

\* C10: parse_balloon_bundle_id gives the only part of an identifier of one part, the
\* third part of one of three or more parts, and None for two parts or an absent
\* identifier; variant with code 0, 2 or 3 then returns Normal.
C10_EffectiveBundle ==
    /\ op = "parse_balloon_bundle_id" => ret = Ok(ExpectedBundle(balloon_bundle_id))
    /\ ( /\ op = "variant" /\ associated_message_type \in {0, 2, 3}
         /\ ExpectedBundle(balloon_bundle_id) = None )
            => ret = Ok(VariantNormal)

\* an identifier of more than three parts resolved to its non-empty third part, which
\* differs from its second
C10_Witness ==
    /\ Returned("parse_balloon_bundle_id") /\ is_some(balloon_bundle_id)
    /\ Cardinality(Positions(balloon_bundle_id[2], IsColon)) >= 3
    /\ is_some(ret[2]) /\ ret[2][2] # <<>>
    /\ ret[2][2] # SubSeq(balloon_bundle_id[2], NthColon(balloon_bundle_id[2], 1) + 1,
                          NthColon(balloon_bundle_id[2], 2) - 1)

----------------------------------------------------------------------------
(* Message::variant, the codes 0, 2 and 3 *)

\* the balloon of an effective identifier (one that is not empty of parts) and a text
ExpectedBalloon(id, txt) ==
    IF Len(id) = 1 /\ id[1] = URL_BALLOON
    THEN IF txt # None /\ Len(txt[2]) >= 1 /\ txt[2][1] = MUSIC_PREFIX
         THEN BalloonMusic
         ELSE BalloonURL
    ELSE IF Len(id) = 1 /\ id[1] = HANDWRITING THEN BalloonHandwriting
    ELSE IF Len(id) = 1 /\ id[1] = APPLE_PAY THEN BalloonApplePay
    ELSE IF Len(id) = 1 /\ id[1] = FITNESS THEN BalloonFitness
    ELSE IF Len(id) = 1 /\ id[1] = SLIDESHOW THEN BalloonSlideshow
    ELSE BalloonApplication(id)

\* C11: for the codes 0, 2 and 3 and a resolved effective identifier, the URL provider
\* gives App(Music) exactly when the text is present and starts with the music prefix
\* and App(URL) otherwise; the handwriting, payment, fitness and slideshow identifiers
\* give their balloons; any other identifier gives App(Application(id)) with the
\* identifier unchanged.  For every other code the variant is the one the message
\* would have without a bundle identifier.
C11_BalloonKinds ==
    op = "variant"
        => IF associated_message_type \in {0, 2, 3}
           THEN ExpectedBundle(balloon_bundle_id) # None
                    => ret = Ok(VariantApp(ExpectedBalloon(
                                  ExpectedBundle(balloon_bundle_id)[2], text)))
           ELSE ret = variant(associated_message_type, None, text, associated_message_guid)

\* a third-party identifier of three parts resolved to Application(third part)
C11_Witness ==
    /\ Returned("variant") /\ associated_message_type \in {0, 2, 3}
    /\ is_some(balloon_bundle_id)
    /\ Cardinality(Positions(balloon_bundle_id[2], IsColon)) = 2
    /\ ret[2][1] = "App" /\ ret[2][2][1] = "Application"
    /\ ret[2][2][2] # <<>> /\ ret[2][2][2] # balloon_bundle_id[2]

----------------------------------------------------------------------------
(* Message::body, the placeholders *)

IsPlaceholder(b) == b[1] # "Text"

\* the n-th smallest element of a set of numbers
NthOf(S, n) == CHOOSE i \in S : Cardinality({j \in S : j < i}) = n - 1

\* the placeholders of the sentinels of s, in the order of s
SentinelPlaceholders(s) ==
    LET at == Positions(s, IsSentinel)
    IN  [n \in 1..Cardinality(at) |-> Placeholder(s[NthOf(at, n)])]

\* C19: with no bundle identifier the placeholders of body are, in number and order,
\* the sentinels of the text (U+FFFC Attachment, U+FFFD App), and two adjacent
\* sentinels give two adjacent placeholders with no Text segment between them.
C19_PlaceholdersFollowSentinels ==
    (op = "body" /\ balloon_bundle_id = None /\ is_some(text))
        => /\ ~IsPanic(ret)
           /\ SelectSeq(ret[2], IsPlaceholder) = SentinelPlaceholders(text[2])
           /\ LET at == Positions(text[2], IsSentinel)
                  out == Positions(ret[2], IsPlaceholder)
              IN  \A n \in 1..(Cardinality(at) - 1) :
                      NthOf(at, n + 1) = NthOf(at, n) + 1
                          => NthOf(out, n + 1) = NthOf(out, n) + 1

\* a text with U+FFFD directly before U+FFFC between two runs of characters was
\* segmented into more than the two placeholders
C19_Witness ==
    /\ Returned("body") /\ balloon_bundle_id = None /\ is_some(text)
    /\ \E i \in 2..(Len(text[2]) - 2) :
           /\ text[2][i] = "FFFD" /\ text[2][i + 1] = "FFFC"
           /\ ~IsSentinel(text[2][i - 1]) /\ ~IsSentinel(text[2][i + 2])
    /\ Len(ret[2]) > 2
    /\ \E j \in 1..(Len(ret[2]) - 1) : ret[2][j] = BubbleApp /\ ret[2][j + 1] = BubbleAttachment

----------------------------------------------------------------------------
(* The dates *)

\* instant a is before instant b
Earlier(a, b) == a[1] < b[1] \/ (a[1] = b[1] /\ a[2] < b[2])

\* the whole seconds from start_t to end_t when end_t is not before start_t
WholeGap(start_t, end_t) ==
    end_t[1] - start_t[1] - (IF end_t[2] < start_t[2] THEN 1 ELSE 0)

\* the number of decimal digits of n
NumDigits(n) == IF n = 0 THEN 1 ELSE CHOOSE k \in 1..9 : 10^(k - 1) <= n /\ n < 10^k

\* the decimal numeral of n, digit by digit
Numeral(n) ==
    [i \in 1..NumDigits(n) |-> DigitChar((n \div 10^(NumDigits(n) - i)) % 10)]

\* the units of a duration of s seconds, largest first
Components(s) ==
    << <<s \div 86400, <<"d", "a", "y">> >>,
       <<(s \div 3600) % 24, <<"h", "o", "u", "r">> >>,
       <<(s \div 60) % 60, <<"m", "i", "n", "u", "t", "e">> >>,
       <<s % 60, <<"s", "e", "c", "o", "n", "d">> >> >>

NonZero(c) == c[1] # 0

\* "<n> <unit>", the unit in the plural unless n = 1
Component(c) == Numeral(c[1]) \o <<" ">> \o c[2] \o (IF c[1] = 1 THEN <<>> ELSE <<"s">>)

RECURSIVE Joined(_)
\* the strings of parts with ", " between them
Joined(parts) ==
    IF parts = <<>> THEN <<>>
    ELSE IF Len(parts) = 1 THEN parts[1]
    ELSE parts[1] \o <<",", " ">> \o Joined(Tail(parts))

\* the readable form of a duration of s >= 0 seconds
FormatSpec(s) ==
    LET shown == SelectSeq(Components(s), NonZero)
    IN  Joined([i \in 1..Len(shown) |-> Component(shown[i])])

\* C15: readable_diff returns None for every pair of instants with end earlier than
\* start, also when they differ by less than one second.
C15_BackwardsIsNone ==
    (op = "readable_diff" /\ Earlier(diff_end, diff_start)) => ret = Ok(None)

\* the raw date a is less than the raw date b
RawLess(a, b) == a[1] < b[1] \/ (a[1] = b[1] /\ a[2] < b[2])

\* the whole seconds of a raw date, rounded toward zero
WholeSecond(a) == IF a[1] >= 0 \/ a[2] = 0 THEN a[1] ELSE a[1] + 1

Received == ~is_from_me /\ date # Stamp(0, 0) /\ date_read # Stamp(0, 0)

Sent == is_from_me /\ date # Stamp(0, 0) /\ date_delivered # Stamp(0, 0)

HasLocalTime(a) == (WholeSecond(a) + get_offset) \notin ambiguous

\* the readable duration from raw date a to raw date b in whole seconds, None when b
\* is before a or one of them has no local time
DurationBetween(a, b) ==
    IF ~HasLocalTime(a) \/ ~HasLocalTime(b) THEN None
    ELSE IF WholeSecond(b) < WholeSecond(a) THEN None
    ELSE Some(FormatSpec(WholeSecond(b) - WholeSecond(a)))

\* C17: time_until_read of a received message with date and date_read set is the
\* duration from date to date_read, of a sent message with date and date_delivered
\* set the duration from date to date_delivered, and None in every other case.
C17_SelectsBySender ==
    op = "time_until_read"
        => ret = Ok(IF Received THEN DurationBetween(date, date_read)
                    ELSE IF Sent THEN DurationBetween(date, date_delivered)
                    ELSE None)

\* a received message with all three dates set, delivered and read in different
\* seconds, got a non-empty time until read
C17_Witness ==
    /\ Returned("time_until_read") /\ Received /\ date_delivered # Stamp(0, 0)
    /\ WholeSecond(date_delivered) # WholeSecond(date_read)
    /\ WholeSecond(date_delivered) >= WholeSecond(date)
    /\ is_some(ret[2]) /\ ret[2][2] # <<>>

\* C18: for end not before start, s whole seconds apart, readable_diff returns
\* Some of the non-zero ones of days = s / 86400, hours < 24, minutes < 60 and
\* seconds < 60 (which add up to s), each as "<n> <unit>", singular exactly when
\* n = 1, largest unit first, joined by ", "; s = 0 gives Some(""), not None.
C18_Decomposition ==
    (op = "readable_diff" /\ ~Earlier(diff_end, diff_start))
        => LET s == WholeGap(diff_start, diff_end)
               c == Components(s)
           IN  /\ c[2][1] \in 0..23 /\ c[3][1] \in 0..59 /\ c[4][1] \in 0..59
               /\ c[1][1] * 86400 + c[2][1] * 3600 + c[3][1] * 60 + c[4][1] = s
               /\ ret = Ok(Some(FormatSpec(s)))
               /\ s = 0 => ret = Ok(Some(<<>>))

\* a difference of one day, several hours, one minute and several seconds, the end
\* with the smaller sub-second part, was formatted
C18_Witness ==
    /\ Returned("readable_diff") /\ ~Earlier(diff_end, diff_start)
    /\ diff_end[2] < diff_start[2]
    /\ LET c == Components(WholeGap(diff_start, diff_end))
       IN  c[1][1] = 1 /\ c[2][1] > 1 /\ c[3][1] = 1 /\ c[4][1] > 1
    /\ is_some(ret[2]) /\ Len(ret[2][2]) > 30

----------------------------------------------------------------------------
(* The table *)

\* the call returned a map
ReturnedMap(name) == op = name /\ ~IsPanic(ret) /\ is_ok(ret[2])

\* the codes of the reactions, added and removed
ReactionCodes == (2000..2005) \cup (3000..3005)

\* the row classifies as a reaction: a Reaction, or a Sticker with an association
\* identifier
ClassifiesAsReaction(row) ==
    \/ row.associated_message_type \in ReactionCodes
    \/ /\ row.associated_message_type = 1000
       /\ row.associated_message_guid # None

\* the variant of the row is Reaction or Sticker
ReactionOrSticker(row) == row.associated_message_type \in ReactionCodes \cup {1000}

\* the target the association identifier of the row decodes to
DecodedTarget(row) == clean_associated_guid(row.associated_message_guid)[2][2][2]

\* the guids of a sequence of rows
GuidsOf(rows) == [i \in 1..Len(rows) |-> rows[i].guid]

\* the guids of the scanned rows that react to T, in scan order
ReactingTo(T) ==
    LET reacts(row) ==
            /\ row.associated_message_guid # None
            /\ ClassifiesAsReaction(row)
            /\ DecodedTarget(row) = T
    IN  GuidsOf(SelectSeq(db, reacts))

\* the targets of the scanned rows that classify as a reaction
ReactionTargets ==
    {DecodedTarget(db[i]) :
         i \in {j \in 1..Len(db) : /\ db[j].associated_message_guid # None
                                   /\ ClassifiesAsReaction(db[j])}}

\* C12: the map that cache returns has, for every key T, exactly the guids of the
\* scanned rows (those with an association identifier) that classify as a reaction
\* and whose decoded target is T, in scan order; no other row contributes.
C12_CacheContents ==
    ReturnedMap("cache")
        => LET map == ret[2][2]
           IN  /\ DOMAIN map = ReactionTargets
               /\ \A T \in DOMAIN map \cup {TargetGuid, OtherGuid} :
                      IF T \in DOMAIN map THEN map[T] = ReactingTo(T)
                      ELSE ReactingTo(T) = <<>>

\* a sticker and a reaction to the same message, the later one first in the table,
\* were cached in the order of the table
C12_Witness ==
    /\ ReturnedMap("cache") /\ Len(db) = 2
    /\ date_le(db[2], db[1]) /\ ~date_le(db[1], db[2])
    /\ {db[1].associated_message_type, db[2].associated_message_type}
           = {1000, 2001}
    /\ TargetGuid \in DOMAIN ret[2][2]
    /\ ret[2][2][TargetGuid] = <<db[1].guid, db[2].guid>>

\* the decoded message of a row
MessageOf(row) == [f \in (DOMAIN row) \ {"decode"} |-> row[f]]

\* the groups are each in ascending date
GroupsAscending(out) ==
    \A idx \in DOMAIN out :
        \A k, l \in 1..Len(out[idx]) : k < l => date_le(out[idx][k], out[idx][l])

\* the map holds the messages of exactly the rows of the table that pass Test, each
\* once, and each in the group that KeyOf gives it
GroupsHoldExactly(out, Test(_), KeyOf(_)) ==
    /\ \A idx \in DOMAIN out : Len(out[idx]) > 0
    /\ \A idx \in DOMAIN out : \A k \in 1..Len(out[idx]) :
           \E i \in 1..Len(db) :
               /\ Test(db[i]) /\ out[idx][k] = MessageOf(db[i]) /\ KeyOf(db[i]) = idx
    /\ \A i \in 1..Len(db) :
           Test(db[i])
               => /\ KeyOf(db[i]) \in DOMAIN out
                  /\ Cardinality({k \in 1..Len(out[KeyOf(db[i])]) :
                                      out[KeyOf(db[i])][k] = MessageOf(db[i])}) = 1

\* the sub-part index of the variant of a row
IndexOfVariant(row) == variant_of(row)[2][2]

\* C13: get_reactions returns the empty map when the cache has no entry for the guid
\* of the message; a map it returns otherwise holds exactly the rows of the table
\* whose guid is in the cached list and whose variant is Reaction or Sticker, each in
\* the group of the sub-part index of its variant, every group in ascending date
\* whatever the order of the cached list.
C13_ReactionGroups ==
    op = "get_reactions"
        => IF self_guid \notin DOMAIN reactions THEN ret = Ok(ResultOk(EmptyMap))
           ELSE ReturnedMap("get_reactions")
                    => LET cached == {reactions[self_guid][k] :
                                          k \in 1..Len(reactions[self_guid])}
                           fetched(row) == row.guid \in cached /\ ReactionOrSticker(row)
                       IN  /\ GroupsHoldExactly(ret[2][2], fetched, IndexOfVariant)
                           /\ GroupsAscending(ret[2][2])

\* two reactions to the same part, cached in the order opposite to their dates, were
\* returned in the order of their dates
C13_Witness ==
    /\ ReturnedMap("get_reactions") /\ self_guid \in DOMAIN reactions
    /\ Len(reactions[self_guid]) = 2
    /\ \E idx \in DOMAIN ret[2][2] :
           /\ Len(ret[2][2][idx]) = 2
           /\ ret[2][2][idx][1].guid = reactions[self_guid][2]
           /\ ret[2][2][idx][2].guid = reactions[self_guid][1]
           /\ ~date_le(ret[2][2][idx][2], ret[2][2][idx][1])

\* the row replies to the message
RepliesToSelf(row) == row.thread_originator_guid = Some(self_guid)

\* the reply index of a row
ReplyIndexOf(row) == get_reply_index(row.thread_originator_part)[2]

\* C14: get_replies of a message with num_replies <= 0 returns the empty map whatever
\* the table holds; a map it returns for num_replies > 0 holds exactly the rows whose
\* thread_originator_guid is the guid of the message, each in the group of its
\* get_reply_index, every group in ascending date.
C14_ReplyGroups ==
    op = "get_replies"
        => IF num_replies <= 0 THEN ret = Ok(ResultOk(EmptyMap))
           ELSE ReturnedMap("get_replies")
                    => /\ GroupsHoldExactly(ret[2][2], RepliesToSelf, ReplyIndexOf)
                       /\ GroupsAscending(ret[2][2])

\* two replies to the same part of the message, the later one first in the table,
\* were returned in the order of their dates
C14_Witness ==
    /\ ReturnedMap("get_replies") /\ num_replies > 0 /\ Len(db) = 2
    /\ ~date_le(db[1], db[2])
    /\ 1 \in DOMAIN ret[2][2]
    /\ ret[2][2][1] = <<MessageOf(db[2]), MessageOf(db[1])>>

\* the rows the last call fetched
Batch ==
    CASE op = "cache" -> {i \in 1..Len(db) : db[i].associated_message_guid # None}
      [] op = "get_reactions" ->
             IF self_guid \in DOMAIN reactions
             THEN {i \in 1..Len(db) :
                       \E k \in 1..Len(reactions[self_guid]) :
                           db[i].guid = reactions[self_guid][k]}
             ELSE {}
      [] op = "get_replies" ->
             IF num_replies > 0 THEN {i \in 1..Len(db) : RepliesToSelf(db[i])} ELSE {}
      [] OTHER -> {}

Failing == {i \in Batch : db[i].decode # "ok"}

\* the failing rows that no failing row comes before: in the table for cache, in date
\* for the other two
FirstFailing ==
    IF op = "cache" THEN {i \in Failing : \A j \in Failing : i <= j}
    ELSE {i \in Failing : \A j \in Failing : date_le(db[i], db[j])}

\* C20: when a row of the batch that cache, get_reactions or get_replies scans fails
\* to decode, the call returns an error with the cause of the first such row, not a
\* map, and the rows after it are not processed.
C20_FailingRowIsError ==
    Failing # {}
        => /\ ~IsPanic(ret)
           /\ ~is_ok(ret[2])
           /\ \E i \in FirstFailing :
                  ret[2] = ResultErr(<<"Message query error: ", db[i].decode>>)

----------------------------------------------------------------------------
(* Message::variant and Message::body of the same message *)

\* the call returned Variant::App of some kind
ReturnedApp(name, r) == name = "variant" /\ ~IsPanic(r) /\ r[2][1] = "App"

\* C22: when variant returns App(kind) for a message, body returns exactly [App] for
\* it, whichever of the two is called first, for all codes, bundle identifiers and
\* texts.
C22_AppVariantAppBody ==
    [][/\ (ReturnedApp(op, ret) /\ op' = "body") => ret' = Ok(<<BubbleApp>>)
       /\ (op = "body" /\ ReturnedApp(op', ret')) => ret = Ok(<<BubbleApp>>)]_vars

\* body returned [App] for a message with a text of its own, a code other than 0 and
\* an identifier of three parts, which variant classifies as an App
C22_Witness ==
    /\ Returned("body") /\ ret = Ok(<<BubbleApp>>)
    /\ associated_message_type \in {2, 3}
    /\ is_some(text) /\ Stripped(text[2]) # <<>>
    /\ is_some(balloon_bundle_id)
    /\ Cardinality(Positions(balloon_bundle_id[2], IsColon)) = 2
    /\ parse_balloon_bundle_id(balloon_bundle_id) # Some(<<>>)
    /\ ReturnedApp("variant", variant(associated_message_type, balloon_bundle_id,
                                      text, associated_message_guid))

----------------------------------------------------------------------------
(* Message::cache and Message::get_reactions over the same table *)

\* the cache handed to get_reactions is the one cache returns for the table
CacheOfTable ==
    LET built == cache(db)
    IN  /\ ~IsPanic(built)
        /\ is_ok(built[2])
        /\ built[2][2] = reactions

\* the cached list of the message
CachedForSelf == IF self_guid \in DOMAIN reactions THEN reactions[self_guid] ELSE <<>>

\* the places <<idx, k>> of the rows of a map of groups
PlacesOf(out) == UNION {{<<idx, k>> : k \in 1..Len(out[idx])} : idx \in DOMAIN out}

\* C21: with the cache of the unchanged table, whose guids are unique, get_reactions
\* returns a map in which every guid of the cached list of the message is in exactly
\* one group, so no row the cache admitted is dropped and the groups hold as many
\* rows as the list has guids, and the target of every row returned is the guid of
\* the message.
C21_CacheAndLookupAgree ==
    (op = "get_reactions" /\ CacheOfTable)
        => /\ ReturnedMap("get_reactions")
           /\ LET out == ret[2][2]
              IN  /\ \A k \in 1..Len(CachedForSelf) :
                         Cardinality({pl \in PlacesOf(out) :
                                          out[pl[1]][pl[2]].guid = CachedForSelf[k]}) = 1
                  /\ Cardinality(PlacesOf(out)) = Len(CachedForSelf)
                  /\ \A pl \in PlacesOf(out) :
                         DecodedTarget(out[pl[1]][pl[2]]) = self_guid

\* a sticker on one part of the message and a reaction to another part, cached by
\* cache, were returned in two groups
C21_Witness ==
    /\ ReturnedMap("get_reactions") /\ CacheOfTable
    /\ Len(CachedForSelf) = 2
    /\ {db[i].associated_message_type : i \in 1..Len(db)} = {1000, 2001}
    /\ Cardinality(DOMAIN ret[2][2]) = 2

====
